---- MODULE Spec2Model ----
(***************************************************************************)
(* The CFA forward model: the mask builders of operators/misc/cfa_masks.py *)
(* and the operator of operators/cfa_operator.py (construction, direct,    *)
(* adjoint, matrix).                                                       *)
(*                                                                         *)
(* Arrays are records [kind, shape, val].  A 3-d array maps a pixel <<i,j>>*)
(* to its spectral vector [0..c-1 -> Int]; a 2-d array maps a pixel to a   *)
(* number.  Indices are 0-based as in the source.  A raised exception is a *)
(* record [kind |-> "error", err |-> <exception class>].                   *)
(***************************************************************************)
EXTENDS Integers, Sequences, FiniteSets, TLC

VARIABLES pc, cfa, input_shape, output_shape, cfa_mask,
          spectral_stencil, responses_file,
          lastDirect, lastAdjoint, lastMatrix

vars == <<pc, cfa, input_shape, output_shape, cfa_mask,
          spectral_stencil, responses_file,
          lastDirect, lastAdjoint, lastMatrix>>

-----------------------------------------------------------------------------
(* Bounds of the model *)

MaxH == 2
MaxW == 3
MaxC == 2
MaxSeed == 1
MaxMaskH == 10
MaxMaskW == 12
MaxBands == 3

-----------------------------------------------------------------------------
(* Values *)

Unset == [kind |-> "unset"]
None == [kind |-> "None"]
Error(e) == [kind |-> "error", err |-> e]

Pix(h, w) == (0 .. h - 1) \X (0 .. w - 1)

RECURSIVE SumTo(_, _)
SumTo(f, n) == IF n = 0 THEN 0 ELSE f[n - 1] + SumTo(f, n - 1)

-----------------------------------------------------------------------------
(* numpy semantics used by the source *)

\* Two dimensions broadcast when they are equal or one of them is 1.
DimOk(a, b) == a = b \/ a = 1 \/ b = 1
DimOut(a, b) == IF a = 1 THEN b ELSE a
At(i, n) == IF n = 1 THEN 0 ELSE i

Broadcastable(s, t) ==
  \A d \in 1 .. Len(s) : DimOk(s[d], t[d])

\* a * b for two 3-d arrays, with broadcasting.
Multiply(a, b) ==
  IF ~Broadcastable(a.shape, b.shape) THEN Error("ValueError")
  ELSE LET h == DimOut(a.shape[1], b.shape[1])
           w == DimOut(a.shape[2], b.shape[2])
           c == DimOut(a.shape[3], b.shape[3])
       IN [kind |-> "tensor", shape |-> <<h, w, c>>,
           val |-> [p \in Pix(h, w) |->
                     [k \in 0 .. c - 1 |->
                        a.val[<<At(p[1], a.shape[1]), At(p[2], a.shape[2])>>][At(k, a.shape[3])]
                      * b.val[<<At(p[1], b.shape[1]), At(p[2], b.shape[2])>>][At(k, b.shape[3])]]]]

\* np.sum(a, axis=2)
SumAxis2(a) ==
  [kind |-> "tensor", shape |-> <<a.shape[1], a.shape[2]>>,
   val |-> [p \in Pix(a.shape[1], a.shape[2]) |-> SumTo(a.val[p], a.shape[3])]]

\* y[..., np.newaxis]
NewAxis(y) ==
  [kind |-> "tensor", shape |-> <<y.shape[1], y.shape[2], 1>>,
   val |-> [p \in Pix(y.shape[1], y.shape[2]) |-> [k \in {0} |-> y.val[p]]]]

\* np.kron(np.ones((h, w, 1)), f) for a vector f: every pixel holds f.
KronOnes(h, w, f) ==
  [kind |-> "tensor", shape |-> <<h, w, Len(f)>>,
   val |-> [p \in Pix(h, w) |-> [k \in 0 .. Len(f) - 1 |-> 1 * f[k + 1]]]]

\* The slice cut at the last whole period of the axis.
InSlice_whole_tiles(i, start, step, n) ==
  /\ i >= start
  /\ (i - start) % step = 0
  /\ i < (n \div step) * step

\* i is an index of the slice start::step of an axis of length n.
InSlice(i, start, step, n) ==
  /\ i >= start
  /\ (i - start) % step = 0
  /\ i < n

\* The assignment with the two slices exchanged: m[co::cp, ro::rp] = f
SliceAssign_transposed(m, ro, rp, co, cp, f) ==
  [m EXCEPT !.val =
     [p \in Pix(m.shape[1], m.shape[2]) |->
        IF InSlice(p[1], co, cp, m.shape[1]) /\ InSlice(p[2], ro, rp, m.shape[2])
        THEN [k \in 0 .. m.shape[3] - 1 |-> f[k + 1]]
        ELSE m.val[p]]]

\* m[ro::rp, co::cp] = f
SliceAssign(m, ro, rp, co, cp, f) ==
  [m EXCEPT !.val =
     [p \in Pix(m.shape[1], m.shape[2]) |->
        IF InSlice(p[1], ro, rp, m.shape[1]) /\ InSlice(p[2], co, cp, m.shape[2])
        THEN [k \in 0 .. m.shape[3] - 1 |-> f[k + 1]]
        ELSE m.val[p]]]

-----------------------------------------------------------------------------
(* The response provider (get_spectral_responses.get_filter_response)       *)

DIRAC == "dirac"
WV34 == "WV34bands_Spectral_Responses.npz"

\* The wavelengths (nm) the stencils of the model are drawn from.
Wavelengths == <<650, 550, 450>>

\* The stencil of n samples.
StencilOf(n) == [k \in 1 .. n |-> Wavelengths[((k - 1) % Len(Wavelengths)) + 1]]

\* Dirac filters: an indicator of the band's interval; pan passes everything.
DiracResponse(band, lambda) ==
  CASE band = "red" -> IF lambda >= 600 THEN 1 ELSE 0
    [] band = "green" -> IF lambda >= 500 /\ lambda < 600 THEN 1 ELSE 0
    [] band = "blue" -> IF lambda < 500 THEN 1 ELSE 0
    [] band = "pan" -> 1

\* The stored table: one sensitivity curve per band index, peaked at the
\* band's centre; index 4 is the panchromatic band.
WV34Centre == <<450, 550, 650, 800>>

WV34Response(band, lambda) ==
  IF band = 4 THEN 2
  ELSE LET d == IF lambda >= WV34Centre[band + 1]
                THEN lambda - WV34Centre[band + 1]
                ELSE WV34Centre[band + 1] - lambda
       IN IF d < 50 THEN 3 ELSE IF d < 150 THEN 1 ELSE 0

get_filter_response(stencil, file, band) ==
  IF file = DIRAC
  THEN IF band \in {"red", "green", "blue", "pan"}
       THEN [kind |-> "vector",
             val |-> [k \in 1 .. Len(stencil) |-> DiracResponse(band, stencil[k])]]
       ELSE Error("KeyError")
  ELSE IF file = WV34
  THEN IF band \in 0 .. 4
       THEN [kind |-> "vector",
             val |-> [k \in 1 .. Len(stencil) |-> WV34Response(band, stencil[k])]]
       ELSE Error("KeyError")
  ELSE Error("KeyError")

-----------------------------------------------------------------------------
(* operators/misc/cfa_masks.py *)

get_rgbp_bands(file_name) ==
  IF file_name = DIRAC
  THEN [kind |-> "tuple", red |-> "red", green |-> "green", blue |-> "blue", pan |-> "pan"]
  ELSE IF file_name = WV34
  THEN [kind |-> "tuple", red |-> 2, green |-> 1, blue |-> 0, pan |-> 4]
  ELSE None

\* One slice assignment cfa_mask[ro::rp, co::cp] = <band>_filter.
A(ro, rp, co, cp, band) == [ro |-> ro, rp |-> rp, co |-> co, cp |-> cp, band |-> band]

\* The slice assignments of a builder, applied in the order of the source.
RECURSIVE ApplyAssigns(_, _, _, _)
ApplyAssigns(m, assigns, n, filt) ==
  IF n > Len(assigns) THEN m
  ELSE ApplyAssigns(
         SliceAssign(m, assigns[n].ro, assigns[n].rp, assigns[n].co, assigns[n].cp,
                     filt[assigns[n].band].val),
         assigns, n + 1, filt)

\* The body every builder shares: unpack the bands, fetch the filters, spread
\* the default filter over the grid, then assign the slices.
BuildMask(rule, shape, stencil, file) ==
  LET bands == get_rgbp_bands(file)
  IN IF bands.kind = "None" THEN Error("TypeError")
     ELSE LET fetched == {rule.fetch[n] : n \in 1 .. Len(rule.fetch)}
              filt == [b \in fetched |-> get_filter_response(stencil, file, bands[b])]
              bad == {n \in 1 .. Len(rule.fetch) : filt[rule.fetch[n]].kind = "error"}
          IN IF bad # {}
             THEN filt[rule.fetch[CHOOSE n \in bad : \A o \in bad : n <= o]]
             ELSE ApplyAssigns(KronOnes(shape[1], shape[2], filt[rule.default].val),
                               rule.assigns, 1, filt)

\* get_bayer_GRBG_mask: the filters it fetches, the band it spreads over the grid and its
\* slice assignments [ro::rp, co::cp] = band, in the order of the source.
get_bayer_GRBG_mask_rule ==
  [fetch |-> <<"red", "green", "blue">>,
   default |-> "green",
   assigns |-> <<
     A(0, 2, 1, 2, "red"),
     A(1, 2, 0, 2, "blue")
   >>]

get_bayer_GRBG_mask(shape, stencil, file) ==
  BuildMask(get_bayer_GRBG_mask_rule, shape, stencil, file)

\* get_bayer_RGGB_mask: the filters it fetches, the band it spreads over the grid and its
\* slice assignments [ro::rp, co::cp] = band, in the order of the source.
get_bayer_RGGB_mask_rule_red_blue_exchanged ==
  [fetch |-> <<"red", "green", "blue">>,
   default |-> "green",
   assigns |-> <<
     A(0, 2, 0, 2, "blue"),
     A(1, 2, 1, 2, "red")
   >>]

get_bayer_RGGB_mask_rule ==
  [fetch |-> <<"red", "green", "blue">>,
   default |-> "green",
   assigns |-> <<
     A(0, 2, 0, 2, "red"),
     A(1, 2, 1, 2, "blue")
   >>]

get_bayer_RGGB_mask(shape, stencil, file) ==
  BuildMask(get_bayer_RGGB_mask_rule, shape, stencil, file)

\* get_quad_mask: the filters it fetches, the band it spreads over the grid and its
\* slice assignments [ro::rp, co::cp] = band, in the order of the source.
get_quad_mask_rule ==
  [fetch |-> <<"red", "green", "blue">>,
   default |-> "green",
   assigns |-> <<
     A(0, 4, 2, 4, "red"),
     A(0, 4, 3, 4, "red"),
     A(1, 4, 2, 4, "red"),
     A(1, 4, 3, 4, "red"),
     A(2, 4, 0, 4, "blue"),
     A(2, 4, 1, 4, "blue"),
     A(3, 4, 0, 4, "blue"),
     A(3, 4, 1, 4, "blue")
   >>]

get_quad_mask(shape, stencil, file) ==
  BuildMask(get_quad_mask_rule, shape, stencil, file)

\* get_sparse_3_mask: the filters it fetches, the band it spreads over the grid and its
\* slice assignments [ro::rp, co::cp] = band, in the order of the source.
get_sparse_3_mask_rule ==
  [fetch |-> <<"red", "green", "blue", "pan">>,
   default |-> "pan",
   assigns |-> <<
     A(0, 8, 0, 8, "red"),
     A(0, 8, 4, 8, "green"),
     A(4, 8, 0, 8, "green"),
     A(4, 8, 4, 8, "blue")
   >>]

get_sparse_3_mask(shape, stencil, file) ==
  BuildMask(get_sparse_3_mask_rule, shape, stencil, file)

\* get_kodak_mask: the filters it fetches, the band it spreads over the grid and its
\* slice assignments [ro::rp, co::cp] = band, in the order of the source.
get_kodak_mask_rule ==
  [fetch |-> <<"red", "green", "blue", "pan">>,
   default |-> "pan",
   assigns |-> <<
     A(3, 4, 2, 4, "red"),
     A(2, 4, 3, 4, "red"),
     A(3, 4, 0, 4, "green"),
     A(2, 4, 1, 4, "green"),
     A(1, 4, 2, 4, "green"),
     A(0, 4, 3, 4, "green"),
     A(1, 4, 0, 4, "blue"),
     A(0, 4, 1, 4, "blue")
   >>]

get_kodak_mask(shape, stencil, file) ==
  BuildMask(get_kodak_mask_rule, shape, stencil, file)

\* get_sony_mask: the filters it fetches, the band it spreads over the grid and its
\* slice assignments [ro::rp, co::cp] = band, in the order of the source.
get_sony_mask_rule ==
  [fetch |-> <<"red", "green", "blue", "pan">>,
   default |-> "pan",
   assigns |-> <<
     A(2, 4, 3, 4, "red"),
     A(0, 4, 1, 4, "red"),
     A(3, 4, 0, 4, "green"),
     A(2, 4, 1, 4, "green"),
     A(1, 4, 2, 4, "green"),
     A(0, 4, 3, 4, "green"),
     A(3, 4, 2, 4, "blue"),
     A(1, 4, 0, 4, "blue")
   >>]

get_sony_mask(shape, stencil, file) ==
  BuildMask(get_sony_mask_rule, shape, stencil, file)

\* get_chakrabarti_mask: the filters it fetches, the band it spreads over the grid and its
\* slice assignments [ro::rp, co::cp] = band, in the order of the source.
get_chakrabarti_mask_rule ==
  [fetch |-> <<"red", "green", "blue", "pan">>,
   default |-> "pan",
   assigns |-> <<
     A(2, 6, 3, 6, "red"),
     A(2, 6, 2, 6, "green"),
     A(3, 6, 3, 6, "green"),
     A(3, 6, 2, 6, "blue")
   >>]

get_chakrabarti_mask(shape, stencil, file) ==
  BuildMask(get_chakrabarti_mask_rule, shape, stencil, file)

\* get_honda_mask: the filters it fetches, the band it spreads over the grid and its
\* slice assignments [ro::rp, co::cp] = band, in the order of the source.
get_honda_mask_rule ==
  [fetch |-> <<"red", "green", "blue", "pan">>,
   default |-> "pan",
   assigns |-> <<
     A(1, 4, 3, 4, "red"),
     A(1, 4, 1, 4, "green"),
     A(3, 4, 3, 4, "green"),
     A(3, 4, 1, 4, "blue")
   >>]

get_honda_mask(shape, stencil, file) ==
  BuildMask(get_honda_mask_rule, shape, stencil, file)

\* get_kaizu_mask: the filters it fetches, the band it spreads over the grid and its
\* slice assignments [ro::rp, co::cp] = band, in the order of the source.
get_kaizu_mask_rule ==
  [fetch |-> <<"red", "green", "blue", "pan">>,
   default |-> "pan",
   assigns |-> <<
     A(0, 6, 0, 6, "red"),
     A(1, 6, 1, 6, "red"),
     A(4, 6, 2, 6, "red"),
     A(5, 6, 3, 6, "red"),
     A(2, 6, 4, 6, "red"),
     A(3, 6, 5, 6, "red"),
     A(0, 6, 2, 6, "green"),
     A(1, 6, 3, 6, "green"),
     A(2, 6, 0, 6, "green"),
     A(3, 6, 1, 6, "green"),
     A(4, 6, 4, 6, "green"),
     A(5, 6, 5, 6, "green"),
     A(4, 6, 0, 6, "blue"),
     A(5, 6, 1, 6, "blue"),
     A(2, 6, 2, 6, "blue"),
     A(3, 6, 3, 6, "blue"),
     A(0, 6, 4, 6, "blue"),
     A(1, 6, 5, 6, "blue")
   >>]

get_kaizu_mask(shape, stencil, file) ==
  BuildMask(get_kaizu_mask_rule, shape, stencil, file)

\* get_yamagami_mask: the filters it fetches, the band it spreads over the grid and its
\* slice assignments [ro::rp, co::cp] = band, in the order of the source.
get_yamagami_mask_rule ==
  [fetch |-> <<"red", "green", "blue", "pan">>,
   default |-> "pan",
   assigns |-> <<
     A(0, 4, 2, 4, "red"),
     A(2, 4, 0, 4, "red"),
     A(1, 4, 1, 4, "green"),
     A(1, 4, 3, 4, "green"),
     A(3, 4, 1, 4, "green"),
     A(3, 4, 3, 4, "green"),
     A(0, 4, 0, 4, "blue"),
     A(2, 4, 2, 4, "blue")
   >>]

get_yamagami_mask(shape, stencil, file) ==
  BuildMask(get_yamagami_mask_rule, shape, stencil, file)

\* get_gindele_mask: the filters it fetches, the band it spreads over the grid and its
\* slice assignments [ro::rp, co::cp] = band, in the order of the source.
get_gindele_mask_rule ==
  [fetch |-> <<"red", "green", "blue", "pan">>,
   default |-> "green",
   assigns |-> <<
     A(0, 2, 1, 2, "red"),
     A(1, 2, 0, 2, "blue"),
     A(1, 2, 1, 2, "pan")
   >>]

get_gindele_mask(shape, stencil, file) ==
  BuildMask(get_gindele_mask_rule, shape, stencil, file)

\* get_hamilton_mask: the filters it fetches, the band it spreads over the grid and its
\* slice assignments [ro::rp, co::cp] = band, in the order of the source.
get_hamilton_mask_rule_green_upper_rows_only ==
  [fetch |-> <<"red", "green", "blue", "pan">>,
   default |-> "pan",
   assigns |-> <<
     A(0, 8, 0, 8, "red"),
     A(1, 8, 1, 8, "red"),
     A(2, 8, 2, 8, "red"),
     A(3, 8, 3, 8, "red"),
     A(2, 8, 0, 8, "red"),
     A(3, 8, 1, 8, "red"),
     A(0, 8, 2, 8, "red"),
     A(1, 8, 3, 8, "red"),
     A(0, 8, 4, 8, "green"),
     A(0, 8, 6, 8, "green"),
     A(1, 8, 5, 8, "green"),
     A(1, 8, 7, 8, "green"),
     A(2, 8, 4, 8, "green"),
     A(2, 8, 6, 8, "green"),
     A(3, 8, 5, 8, "green"),
     A(3, 8, 7, 8, "green"),
     A(4, 8, 4, 8, "blue"),
     A(5, 8, 5, 8, "blue"),
     A(6, 8, 6, 8, "blue"),
     A(7, 8, 7, 8, "blue"),
     A(6, 8, 4, 8, "blue"),
     A(7, 8, 5, 8, "blue"),
     A(4, 8, 6, 8, "blue"),
     A(5, 8, 7, 8, "blue")
   >>]

get_hamilton_mask_rule ==
  [fetch |-> <<"red", "green", "blue", "pan">>,
   default |-> "pan",
   assigns |-> <<
     A(0, 8, 0, 8, "red"),
     A(1, 8, 1, 8, "red"),
     A(2, 8, 2, 8, "red"),
     A(3, 8, 3, 8, "red"),
     A(2, 8, 0, 8, "red"),
     A(3, 8, 1, 8, "red"),
     A(0, 8, 2, 8, "red"),
     A(1, 8, 3, 8, "red"),
     A(0, 8, 4, 8, "green"),
     A(0, 8, 6, 8, "green"),
     A(1, 8, 5, 8, "green"),
     A(1, 8, 7, 8, "green"),
     A(2, 8, 4, 8, "green"),
     A(2, 8, 6, 8, "green"),
     A(3, 8, 5, 8, "green"),
     A(3, 8, 7, 8, "green"),
     A(4, 8, 0, 8, "green"),
     A(6, 8, 0, 8, "green"),
     A(5, 8, 1, 8, "green"),
     A(7, 8, 1, 8, "green"),
     A(4, 8, 2, 8, "green"),
     A(6, 8, 2, 8, "green"),
     A(5, 8, 3, 8, "green"),
     A(7, 8, 3, 8, "green"),
     A(4, 8, 4, 8, "blue"),
     A(5, 8, 5, 8, "blue"),
     A(6, 8, 6, 8, "blue"),
     A(7, 8, 7, 8, "blue"),
     A(6, 8, 4, 8, "blue"),
     A(7, 8, 5, 8, "blue"),
     A(4, 8, 6, 8, "blue"),
     A(5, 8, 7, 8, "blue")
   >>]

get_hamilton_mask(shape, stencil, file) ==
  BuildMask(get_hamilton_mask_rule, shape, stencil, file)

\* get_luo_mask: the filters it fetches, the band it spreads over the grid and its
\* slice assignments [ro::rp, co::cp] = band, in the order of the source.
get_luo_mask_rule ==
  [fetch |-> <<"red", "green", "blue", "pan">>,
   default |-> "pan",
   assigns |-> <<
     A(1, 4, 0, 4, "red"),
     A(1, 4, 2, 4, "red"),
     A(0, 4, 1, 4, "green"),
     A(2, 4, 1, 4, "green"),
     A(1, 4, 1, 4, "blue")
   >>]

get_luo_mask(shape, stencil, file) ==
  BuildMask(get_luo_mask_rule, shape, stencil, file)

\* get_wang_mask: the filters it fetches, the band it spreads over the grid and its
\* slice assignments [ro::rp, co::cp] = band, in the order of the source.
get_wang_mask_rule ==
  [fetch |-> <<"red", "green", "blue", "pan">>,
   default |-> "pan",
   assigns |-> <<
     A(2, 5, 0, 5, "red"),
     A(0, 5, 1, 5, "red"),
     A(1, 5, 3, 5, "red"),
     A(3, 5, 2, 5, "red"),
     A(4, 5, 4, 5, "red"),
     A(3, 5, 0, 5, "green"),
     A(1, 5, 1, 5, "green"),
     A(4, 5, 2, 5, "green"),
     A(2, 5, 3, 5, "green"),
     A(0, 5, 4, 5, "green"),
     A(4, 5, 0, 5, "blue"),
     A(2, 5, 1, 5, "blue"),
     A(0, 5, 2, 5, "blue"),
     A(3, 5, 3, 5, "blue"),
     A(1, 5, 4, 5, "blue")
   >>]

get_wang_mask(shape, stencil, file) ==
  BuildMask(get_wang_mask_rule, shape, stencil, file)

\* get_yamanaka_mask: the filters it fetches, the band it spreads over the grid and its
\* slice assignments [ro::rp, co::cp] = band, in the order of the source.
get_yamanaka_mask_rule_blue_on_red_columns ==
  [fetch |-> <<"red", "green", "blue">>,
   default |-> "green",
   assigns |-> <<
     A(0, 2, 1, 4, "red"),
     A(1, 2, 3, 4, "red"),
     A(1, 2, 3, 4, "blue"),
     A(0, 2, 1, 4, "blue")
   >>]

get_yamanaka_mask_rule ==
  [fetch |-> <<"red", "green", "blue">>,
   default |-> "green",
   assigns |-> <<
     A(0, 2, 1, 4, "red"),
     A(1, 2, 3, 4, "red"),
     A(1, 2, 1, 4, "blue"),
     A(0, 2, 3, 4, "blue")
   >>]

get_yamanaka_mask(shape, stencil, file) ==
  BuildMask(get_yamanaka_mask_rule, shape, stencil, file)

\* get_lukak_mask: the filters it fetches, the band it spreads over the grid and its
\* slice assignments [ro::rp, co::cp] = band, in the order of the source.
get_lukak_mask_rule ==
  [fetch |-> <<"red", "green", "blue">>,
   default |-> "green",
   assigns |-> <<
     A(0, 4, 1, 2, "red"),
     A(2, 4, 0, 2, "red"),
     A(1, 4, 1, 2, "blue"),
     A(3, 4, 0, 2, "blue")
   >>]

get_lukak_mask(shape, stencil, file) ==
  BuildMask(get_lukak_mask_rule, shape, stencil, file)

-----------------------------------------------------------------------------
(* operators/cfa_operator.py *)

\* The base class stores the two shapes.
abstract_operator_init(in_shape, out_shape) ==
  [input_shape |-> in_shape, output_shape |-> out_shape]

\* The chain of comparisons of __init__: the value self.cfa_mask receives, the
\* exception the branch raises, or Unset when no branch matches and the
\* attribute is never assigned.  get_bayer_mask and get_bayer_bis_mask are
\* defined nowhere in cfa_masks.py.
Dispatch(c, shape, stencil, filters) ==
  CASE c = "bayer_VRBV" -> Error("NameError")
    [] c = "bayer_RVVB" -> Error("NameError")
    [] c = "quad_bayer" -> get_quad_mask(shape, stencil, filters)
    [] c = "sparse_3" -> get_sparse_3_mask(shape, stencil, filters)
    [] c = "kodak" -> get_kodak_mask(shape, stencil, filters)
    [] c = "sony" -> get_sony_mask(shape, stencil, filters)
    [] OTHER -> Unset

\* direct(x) = np.sum(x * self.cfa_mask, axis=2)
direct(x) ==
  IF cfa_mask.kind # "tensor" THEN Error("AttributeError")
  ELSE LET prod == Multiply(x, cfa_mask)
       IN IF prod.kind = "error" THEN prod ELSE SumAxis2(prod)

\* adjoint with the mask left out: y repeated along the spectral axis.
adjoint_without_mask(y) ==
  IF cfa_mask.kind # "tensor" THEN Error("AttributeError")
  ELSE Multiply([cfa_mask EXCEPT !.val = [p \in DOMAIN cfa_mask.val |->
                                            [k \in DOMAIN cfa_mask.val[p] |-> 1]]],
                NewAxis(y))

\* adjoint(y) = self.cfa_mask * y[..., np.newaxis]
adjoint(y) ==
  IF cfa_mask.kind # "tensor" THEN Error("AttributeError")
  ELSE Multiply(cfa_mask, NewAxis(y))

\* matrix with the pixel of a row taken as (cfa_i // H, cfa_i % H), wrapped
\* into the grid.
matrix_rows_by_height ==
  LET N_k == input_shape[3]
      N_ij == input_shape[1] * input_shape[2]
      N_ijk == input_shape[1] * input_shape[2] * N_k
      cfa_i == [n \in 0 .. N_ijk - 1 |-> n \div N_k]
      cfa_j == [n \in 0 .. N_ijk - 1 |-> n]
      pixel(n) == <<(cfa_i[n] \div input_shape[1]) % input_shape[1],
                    (cfa_i[n] % input_shape[1]) % input_shape[2]>>
  IN IF cfa_mask.kind # "tensor" THEN Error("AttributeError")
     ELSE IF input_shape[3] > cfa_mask.shape[3] THEN Error("IndexError")
     ELSE [kind |-> "matrix", shape |-> <<N_ij, N_ijk>>,
           entries |-> {<<cfa_i[n], cfa_j[n], cfa_mask.val[pixel(n)][cfa_j[n] % N_k]>> :
                          n \in 0 .. N_ijk - 1}]

\* matrix with the rows numbered by np.tile instead of np.repeat.
matrix_rows_tiled ==
  LET N_k == input_shape[3]
      N_ij == input_shape[1] * input_shape[2]
      N_ijk == input_shape[1] * input_shape[2] * N_k
      cfa_i == [n \in 0 .. N_ijk - 1 |-> n % N_ij]
      cfa_j == [n \in 0 .. N_ijk - 1 |-> n]
  IN IF cfa_mask.kind # "tensor" THEN Error("AttributeError")
     ELSE IF input_shape[3] > cfa_mask.shape[3] THEN Error("IndexError")
     ELSE [kind |-> "matrix", shape |-> <<N_ij, N_ijk>>,
           entries |-> {<<cfa_i[n], cfa_j[n],
                          cfa_mask.val[<<cfa_i[n] \div input_shape[2],
                                         cfa_i[n] % input_shape[2]>>][cfa_j[n] % N_k]>> :
                          n \in 0 .. N_ijk - 1}]

\* The matrix property.  cfa_i, cfa_j and cfa_data are the three arrays handed
\* to csr_array, which stores one entry <<row, column, value>> per position.
matrix ==
  LET N_k == input_shape[3]
      N_ij == input_shape[1] * input_shape[2]
      N_ijk == input_shape[1] * input_shape[2] * N_k
      cfa_i == [n \in 0 .. N_ijk - 1 |-> n \div N_k]
      cfa_j == [n \in 0 .. N_ijk - 1 |-> n]
  IN IF cfa_mask.kind # "tensor" THEN Error("AttributeError")
     ELSE IF \E n \in 0 .. N_ijk - 1 :
                \/ cfa_i[n] \div input_shape[2] >= cfa_mask.shape[1]
                \/ cfa_i[n] % input_shape[2] >= cfa_mask.shape[2]
                \/ cfa_j[n] % N_k >= cfa_mask.shape[3]
     THEN Error("IndexError")
     ELSE LET cfa_data == [n \in 0 .. N_ijk - 1 |->
                             cfa_mask.val[<<cfa_i[n] \div input_shape[2],
                                            cfa_i[n] % input_shape[2]>>][cfa_j[n] % N_k]]
          IN [kind |-> "matrix", shape |-> <<N_ij, N_ijk>>,
              entries |-> {<<cfa_i[n], cfa_j[n], cfa_data[n]>> : n \in 0 .. N_ijk - 1}]

-----------------------------------------------------------------------------
(* The inputs of the model *)

\* The names main.py constructs operators for.
CFAS ==
  {"bayer_GRBG", "quad_bayer", "gindele", "chakrabarti", "hamilton", "honda",
   "kaizu", "kodak", "sony", "sparse_3", "wang", "yamagami", "yamanaka",
   "bayer_RGGB", "lukac", "xtrans", "luo", "binning", "honda2", "random"}

\* The names __init__ compares self.cfa with.
DispatchNames ==
  {"bayer_VRBV", "bayer_RVVB", "quad_bayer", "sparse_3", "kodak", "sony"}

\* The patterns cfa_masks.py holds a builder for.
Catalog ==
  {"bayer_GRBG", "bayer_RGGB", "quad_bayer", "sparse_3", "kodak", "sony",
   "chakrabarti", "honda", "kaizu", "yamagami", "gindele", "hamilton", "luo",
   "wang", "yamanaka", "lukac"}

PatternNames == CFAS \cup DispatchNames \cup {"not_a_cfa"}

Files == {DIRAC, WV34, "unknown.npz"}

\* The builder of a cataloged pattern.
Builder(c, shape, stencil, file) ==
  CASE c = "bayer_GRBG" -> get_bayer_GRBG_mask(shape, stencil, file)
    [] c = "bayer_RGGB" -> get_bayer_RGGB_mask(shape, stencil, file)
    [] c = "quad_bayer" -> get_quad_mask(shape, stencil, file)
    [] c = "sparse_3" -> get_sparse_3_mask(shape, stencil, file)
    [] c = "kodak" -> get_kodak_mask(shape, stencil, file)
    [] c = "sony" -> get_sony_mask(shape, stencil, file)
    [] c = "chakrabarti" -> get_chakrabarti_mask(shape, stencil, file)
    [] c = "honda" -> get_honda_mask(shape, stencil, file)
    [] c = "kaizu" -> get_kaizu_mask(shape, stencil, file)
    [] c = "yamagami" -> get_yamagami_mask(shape, stencil, file)
    [] c = "gindele" -> get_gindele_mask(shape, stencil, file)
    [] c = "hamilton" -> get_hamilton_mask(shape, stencil, file)
    [] c = "luo" -> get_luo_mask(shape, stencil, file)
    [] c = "wang" -> get_wang_mask(shape, stencil, file)
    [] c = "yamanaka" -> get_yamanaka_mask(shape, stencil, file)
    [] c = "lukac" -> get_lukak_mask(shape, stencil, file)

RuleOf(c) ==
  CASE c = "bayer_GRBG" -> get_bayer_GRBG_mask_rule
    [] c = "bayer_RGGB" -> get_bayer_RGGB_mask_rule
    [] c = "quad_bayer" -> get_quad_mask_rule
    [] c = "sparse_3" -> get_sparse_3_mask_rule
    [] c = "kodak" -> get_kodak_mask_rule
    [] c = "sony" -> get_sony_mask_rule
    [] c = "chakrabarti" -> get_chakrabarti_mask_rule
    [] c = "honda" -> get_honda_mask_rule
    [] c = "kaizu" -> get_kaizu_mask_rule
    [] c = "yamagami" -> get_yamagami_mask_rule
    [] c = "gindele" -> get_gindele_mask_rule
    [] c = "hamilton" -> get_hamilton_mask_rule
    [] c = "luo" -> get_luo_mask_rule
    [] c = "wang" -> get_wang_mask_rule
    [] c = "yamanaka" -> get_yamanaka_mask_rule
    [] c = "lukac" -> get_lukak_mask_rule

\* A pseudo-random entry for the flat position n.
Rand(n, seed) == (((n + 1) * (seed + 2) + seed) % 5) - 2

RandCube(shape, seed) ==
  [kind |-> "tensor", shape |-> shape,
   val |-> [p \in Pix(shape[1], shape[2]) |->
             [k \in 0 .. shape[3] - 1 |->
                Rand(k + shape[3] * (p[2] + shape[2] * p[1]), seed)]]]

RandImage(shape, seed) ==
  [kind |-> "tensor", shape |-> shape,
   val |-> [p \in Pix(shape[1], shape[2]) |-> Rand(3 * (p[2] + shape[2] * p[1]) + 1, seed)]]

\* Cubes of the shape s, and cubes of the shapes that broadcast against s or
\* are one row too high.
Cubes(s) == {RandCube(s, sd) : sd \in 0 .. MaxSeed}
XShapes(s) == {s, <<s[1], s[2], 1>>, <<1, 1, s[3]>>, <<s[1] + 1, s[2], s[3]>>}
CubesOfAnyShape(s) == {RandCube(sh, 0) : sh \in XShapes(s)}

\* Images of the shape s, and images of the neighbouring shapes.
Images(s) == {RandImage(s, sd) : sd \in 0 .. MaxSeed}
YShapes(s) == {s, <<1, s[2]>>, <<s[1], 1>>, <<s[1] + 1, s[2]>>}
ImagesOfAnyShape(s) == {RandImage(sh, 0) : sh \in YShapes(s)}

-----------------------------------------------------------------------------
(* The operator: construction, then any calls of direct, adjoint, matrix *)

Init ==
  /\ pc = "start"
  /\ cfa = ""
  /\ input_shape = <<>>
  /\ output_shape = <<>>
  /\ cfa_mask = Unset
  /\ spectral_stencil = <<>>
  /\ responses_file = ""
  /\ lastDirect = Unset
  /\ lastAdjoint = Unset
  /\ lastMatrix = Unset

\* cfa_operator(c, shape, stencil, filters): self.cfa is set, the chain of
\* comparisons runs, then the base class stores the shapes.  An exception
\* leaves no operator (pc = "failed"); cfa_mask then records the exception.
Construct(c, shape, stencil, filters) ==
  /\ pc = "start"
  /\ cfa' = c
  /\ LET m == Dispatch(c, shape, stencil, filters)
     IN IF m.kind = "error"
        THEN /\ pc' = "failed"
             /\ cfa_mask' = m
             /\ UNCHANGED <<input_shape, output_shape>>
        ELSE /\ pc' = "built"
             /\ cfa_mask' = m
             /\ input_shape' = abstract_operator_init(shape, SubSeq(shape, 1, 2)).input_shape
             /\ output_shape' = abstract_operator_init(shape, SubSeq(shape, 1, 2)).output_shape
  /\ UNCHANGED <<spectral_stencil, responses_file, lastDirect, lastAdjoint, lastMatrix>>

\* direct computing its product in place: np.multiply(x, self.cfa_mask,
\* out=self.cfa_mask) before the sum.
Direct_in_place(X) ==
  /\ pc = "built"
  /\ \E x \in X :
       LET prod == IF cfa_mask.kind = "tensor" THEN Multiply(x, cfa_mask) ELSE cfa_mask
       IN /\ lastDirect' = [kind |-> "call", x |-> x, out |-> direct(x)]
          /\ cfa_mask' = IF prod.kind = "tensor" /\ prod.shape = cfa_mask.shape
                         THEN prod ELSE cfa_mask
  /\ UNCHANGED <<pc, cfa, input_shape, output_shape,
                 spectral_stencil, responses_file, lastAdjoint, lastMatrix>>

\* A call of direct with a cube of X.
Direct(X) ==
  /\ pc = "built"
  /\ \E x \in X :
       lastDirect' = [kind |-> "call", x |-> x, out |-> direct(x)]
  /\ UNCHANGED <<pc, cfa, input_shape, output_shape, cfa_mask,
                 spectral_stencil, responses_file, lastAdjoint, lastMatrix>>

\* A call of adjoint with an image of Y.
Adjoint(Y) ==
  /\ pc = "built"
  /\ \E y \in Y :
       lastAdjoint' = [kind |-> "call", y |-> y, out |-> adjoint(y)]
  /\ UNCHANGED <<pc, cfa, input_shape, output_shape, cfa_mask,
                 spectral_stencil, responses_file, lastDirect, lastMatrix>>

Matrix ==
  /\ pc = "built"
  /\ lastMatrix' = [kind |-> "call", out |-> matrix]
  /\ UNCHANGED <<pc, cfa, input_shape, output_shape, cfa_mask,
                 spectral_stencil, responses_file, lastDirect, lastAdjoint>>

ConstructAny ==
  \E c \in PatternNames, h \in 1 .. MaxH, w \in 1 .. MaxW, n \in 1 .. MaxC,
     l \in 1 .. MaxC, f \in Files :
    Construct(c, <<h, w, n>>, StencilOf(l), f)

\* Calls with arguments of the operator's shapes.
Next ==
  \/ ConstructAny
  \/ Direct(Cubes(input_shape))
  \/ Adjoint(Images(output_shape))
  \/ Matrix

Spec == Init /\ [][Next]_vars

\* Calls of direct and adjoint with arguments of any shape.
NextShapes ==
  \/ ConstructAny
  \/ Direct(CubesOfAnyShape(input_shape))
  \/ Adjoint(ImagesOfAnyShape(output_shape))

SpecShapes == Init /\ [][NextShapes]_vars

-----------------------------------------------------------------------------
(* The mask builders, called on their own *)

InitMask ==
  /\ pc = "args"
  /\ cfa \in Catalog
  /\ spectral_stencil \in {StencilOf(l) : l \in 1 .. MaxBands}
  /\ input_shape \in {<<h, w, Len(spectral_stencil)>> : h \in 1 .. MaxMaskH, w \in 1 .. MaxMaskW}
  /\ responses_file \in Files
  /\ output_shape = <<>>
  /\ cfa_mask = Unset
  /\ lastDirect = Unset
  /\ lastAdjoint = Unset
  /\ lastMatrix = Unset

CallBuilder ==
  /\ pc = "args"
  /\ cfa_mask' = Builder(cfa, input_shape, spectral_stencil, responses_file)
  /\ pc' = "returned"
  /\ UNCHANGED <<cfa, input_shape, output_shape, spectral_stencil, responses_file,
                 lastDirect, lastAdjoint, lastMatrix>>

NextMask == CallBuilder

SpecMask == InitMask /\ [][NextMask]_vars

-----------------------------------------------------------------------------
(* Flattening and products used to state the properties *)

\* The cube in row-major order, the spectral axis fastest: k + C*j + C*W*i.
Flatten3(a) ==
  [n \in 0 .. a.shape[1] * a.shape[2] * a.shape[3] - 1 |->
     a.val[<<(n \div a.shape[3]) \div a.shape[2], (n \div a.shape[3]) % a.shape[2]>>]
          [n % a.shape[3]]]

\* The image in row-major order: j + W*i.
Flatten2(a) ==
  [n \in 0 .. a.shape[1] * a.shape[2] - 1 |->
     a.val[<<n \div a.shape[2], n % a.shape[2]>>]]

\* sum(a * b) over two arrays of the same shape.
Dot(u, v, n) == SumTo([q \in 0 .. n - 1 |-> u[q] * v[q]], n)

RECURSIVE SumEntries(_, _, _, _)
SumEntries(E, v, at, keep) ==
  IF E = {} THEN 0
  ELSE LET e == CHOOSE e \in E : TRUE
       IN (IF e[keep] = at THEN e[3] * v[e[3 - keep]] ELSE 0)
          + SumEntries(E \ {e}, v, at, keep)

\* M @ v
MatVec(M, v) == [r \in 0 .. M.shape[1] - 1 |-> SumEntries(M.entries, v, r, 1)]

\* M.transpose() @ v
MatTVec(M, v) == [c \in 0 .. M.shape[2] - 1 |-> SumEntries(M.entries, v, c, 2)]

\* The operator was built from a name __init__ dispatches to a builder.
Dispatched == pc = "built" /\ cfa \in DispatchNames

\* The stencil of the construction had C = input_shape[2] samples.
StencilFits == cfa_mask.shape[3] = input_shape[3]

DirectDone == lastDirect.kind = "call" /\ lastDirect.x.shape = input_shape
AdjointDone == lastAdjoint.kind = "call" /\ lastAdjoint.y.shape = output_shape

-----------------------------------------------------------------------------
(* Properties *)

C3_MatrixStructure ==
  (pc = "built" /\ lastMatrix.kind = "call" /\ lastMatrix.out.kind = "matrix") =>
    LET H == input_shape[1]
        W == input_shape[2]
        C == input_shape[3]
        M == lastMatrix.out
    IN /\ M.shape = <<H * W, H * W * C>>
       /\ \A e \in M.entries : e[1] \in 0 .. H * W - 1
       /\ \A i \in 0 .. H - 1, j \in 0 .. W - 1 :
            /\ {e \in M.entries : e[1] = j + W * i}
               = {<<j + W * i, k + C * j + C * W * i, cfa_mask.val[<<i, j>>][k]>> :
                    k \in 0 .. C - 1}
            /\ Cardinality({e[2] : e \in {d \in M.entries : d[1] = j + W * i}}) = C

C3_Witness ==
  /\ pc = "built"
  /\ lastMatrix.kind = "call"
  /\ lastMatrix.out.kind = "matrix"
  /\ cfa = "sony"
  /\ input_shape = <<2, 3, 2>>
  /\ <<5, 11, cfa_mask.val[<<1, 2>>][1]>> \in lastMatrix.out.entries

\* A filter as the spectral vector of a pixel.
Vec(f) == [k \in 0 .. Len(f) - 1 |-> f[k + 1]]

\* The response of a band for the stencil and the file of the call.
Response(band) ==
  Vec(get_filter_response(spectral_stencil, responses_file,
                          get_rgbp_bands(responses_file)[band]).val)

KnownFile == responses_file \in {DIRAC, WV34}

\* The assignments of a rule whose slices hold the pixel (r, c).
Hits(rule, r, c) ==
  {n \in 1 .. Len(rule.assigns) :
     /\ r >= rule.assigns[n].ro
     /\ (r - rule.assigns[n].ro) % rule.assigns[n].rp = 0
     /\ c >= rule.assigns[n].co
     /\ (c - rule.assigns[n].co) % rule.assigns[n].cp = 0}

Last(S) == CHOOSE n \in S : \A o \in S : o <= n

\* C4: in the mask a builder returns, every pixel (r, c) holds the response of
\* the last assignment, in the order of the source, whose slice holds it, or
\* the response of the default band when no slice holds it.
C4_MaskInvariant ==
  (pc = "returned" /\ KnownFile) =>
    /\ cfa_mask.kind = "tensor"
    /\ cfa_mask.shape = <<input_shape[1], input_shape[2], Len(spectral_stencil)>>
    /\ \A r \in 0 .. input_shape[1] - 1, c \in 0 .. input_shape[2] - 1 :
         LET hits == Hits(RuleOf(cfa), r, c)
         IN cfa_mask.val[<<r, c>>] =
              IF hits = {} THEN Response(RuleOf(cfa).default)
              ELSE Response(RuleOf(cfa).assigns[Last(hits)].band)

C4_Witness ==
  /\ pc = "returned"
  /\ cfa = "hamilton"
  /\ responses_file = DIRAC
  /\ input_shape = <<9, 9, 3>>
  /\ cfa_mask.kind = "tensor"
  /\ cfa_mask.val[<<8, 8>>] = Response("red")
  /\ cfa_mask.val[<<7, 5>>] = Response("blue")
  /\ cfa_mask.val[<<0, 1>>] = Response("pan")
  /\ Response("red") # Response("pan")

\* The period of a rule along the rows and along the columns.
RECURSIVE MaxOver(_, _, _)
MaxOver(assigns, n, field) ==
  IF n > Len(assigns) THEN 1
  ELSE LET rest == MaxOver(assigns, n + 1, field)
       IN IF assigns[n][field] > rest THEN assigns[n][field] ELSE rest

RowPeriod(rule) == MaxOver(rule.assigns, 1, "rp")
ColPeriod(rule) == MaxOver(rule.assigns, 1, "cp")

\* C9: for every pattern and every H, W >= 1, multiples of the period or not,
\* the builder raises nothing and every pixel (r, c), those of the partial
\* tiles included, holds what the pattern's tile holds at
\* (r mod period, c mod period).
C9_EdgeTruncation ==
  (pc = "returned" /\ KnownFile) =>
    /\ cfa_mask.kind = "tensor"
    /\ cfa_mask.shape = <<input_shape[1], input_shape[2], Len(spectral_stencil)>>
    /\ LET P == RowPeriod(RuleOf(cfa))
           Q == ColPeriod(RuleOf(cfa))
           tile == Builder(cfa, <<P, Q, input_shape[3]>>, spectral_stencil, responses_file)
       IN \A r \in 0 .. input_shape[1] - 1, c \in 0 .. input_shape[2] - 1 :
            cfa_mask.val[<<r, c>>] = tile.val[<<r % P, c % Q>>]

C9_Witness ==
  /\ pc = "returned"
  /\ cfa = "quad_bayer"
  /\ responses_file = DIRAC
  /\ input_shape = <<6, 6, 3>>
  /\ cfa_mask.kind = "tensor"
  /\ cfa_mask.val[<<4, 2>>] = Response("red")
  /\ cfa_mask.val[<<5, 3>>] = Response("red")
  /\ cfa_mask.val[<<2, 4>>] = Response("blue")
  /\ cfa_mask.val[<<3, 5>>] = Response("blue")
  /\ cfa_mask.val[<<4, 4>>] = Response("green")
  /\ cfa_mask.val[<<5, 5>>] = Response("green")

\* C10: the Bayer RGGB mask with dirac responses on the shape (4,4,3) holds
\* red at (0,0), green at (0,1) and (1,0), blue at (1,1), and mask[r,c] is
\* mask[r mod 2, c mod 2] over the whole grid.
C10_BayerRGGB ==
  (pc = "returned" /\ cfa = "bayer_RGGB" /\ responses_file = DIRAC
   /\ input_shape = <<4, 4, 3>>) =>
    /\ cfa_mask.kind = "tensor"
    /\ cfa_mask.val[<<0, 0>>] = Response("red")
    /\ cfa_mask.val[<<0, 1>>] = Response("green")
    /\ cfa_mask.val[<<1, 0>>] = Response("green")
    /\ cfa_mask.val[<<1, 1>>] = Response("blue")
    /\ \A r \in 0 .. 3, c \in 0 .. 3 :
         cfa_mask.val[<<r, c>>] = cfa_mask.val[<<r % 2, c % 2>>]

C10_Witness ==
  /\ pc = "returned"
  /\ cfa = "bayer_RGGB"
  /\ responses_file = DIRAC
  /\ input_shape = <<4, 4, 3>>
  /\ cfa_mask.kind = "tensor"
  /\ Response("red") = Vec(<<1, 0, 0>>)
  /\ Response("green") = Vec(<<0, 1, 0>>)
  /\ Response("blue") = Vec(<<0, 0, 1>>)
  /\ cfa_mask.val[<<2, 2>>] = Vec(<<1, 0, 0>>)
  /\ cfa_mask.val[<<3, 3>>] = Vec(<<0, 0, 1>>)

\* C5: constructing the operator with a name that is neither cataloged nor
\* compared in __init__ fails: no operator is produced for it.
C5_UnknownPatternFails ==
  (pc # "start" /\ cfa \notin (Catalog \cup DispatchNames)) => pc = "failed"

\* C6: constructing the operator with the name of a cataloged pattern gives an
\* operator whose mask is the one the pattern's builder returns (the
\* construction may only fail on a file the bands of which are unknown).
C6_CatalogCoverage ==
  (pc # "start" /\ cfa \in Catalog) =>
    \/ /\ pc = "built"
       /\ cfa_mask.kind = "tensor"
       /\ \E l \in 1 .. MaxC, f \in {DIRAC, WV34} :
            cfa_mask = Builder(cfa, input_shape, StencilOf(l), f)
    \/ /\ pc = "failed"
       /\ cfa_mask = Error("TypeError")

\* C7: no operator is produced from a stencil whose length differs from
\* C = input_shape[2]: the mask of a built operator has C bands.
C7_StencilMismatchFails ==
  (pc = "built" /\ cfa_mask.kind = "tensor") => cfa_mask.shape[3] = input_shape[3]

\* C8: direct(x) with x.shape # (H,W,C) and adjoint(y) with y.shape # (H,W)
\* raise and return no array.
C8_ShapeCheck ==
  /\ (pc = "built" /\ lastDirect.kind = "call" /\ lastDirect.x.shape # input_shape)
       => lastDirect.out.kind = "error"
  /\ (pc = "built" /\ lastAdjoint.kind = "call" /\ lastAdjoint.y.shape # output_shape)
       => lastAdjoint.out.kind = "error"

\* The exception classes of Python's LookupError family.
LookupErrors == {"LookupError", "KeyError", "IndexError"}

\* C11: a builder called with a response file the provider does not know
\* builds no mask and raises an exception of the LookupError family, the one
\* get_filter_response raises.
C11_UnknownSourceLookupError ==
  (pc = "returned" /\ ~KnownFile) =>
    /\ cfa_mask.kind = "error"
    /\ cfa_mask.err \in LookupErrors
    /\ cfa_mask = get_filter_response(spectral_stencil, responses_file, "red")

\* What a call of direct, adjoint or matrix leaves alone.
OperatorFrame ==
  /\ pc' = pc
  /\ cfa' = cfa
  /\ cfa_mask' = cfa_mask
  /\ input_shape' = input_shape
  /\ output_shape' = output_shape

\* The result recorded for a call is what the same call returns now.
SameResultNow ==
  /\ lastDirect.kind = "call" => lastDirect.out = direct(lastDirect.x)
  /\ lastAdjoint.kind = "call" => lastAdjoint.out = adjoint(lastAdjoint.y)
  /\ lastMatrix.kind = "call" => lastMatrix.out = matrix

\* C12: once the operator is built, every step (a call of direct, adjoint or
\* matrix, in any order, with any argument) leaves the mask, input_shape and
\* output_shape unchanged, and at every point of the sequence direct(x),
\* adjoint(y) and matrix return for an earlier argument what they returned
\* for it then.
C12_Purity ==
  /\ [][pc = "built" => OperatorFrame]_vars
  /\ [](pc = "built" => SameResultNow)

C12_Witness ==
  /\ pc = "built"
  /\ cfa = "sparse_3"
  /\ input_shape = <<2, 3, 2>>
  /\ cfa_mask.kind = "tensor"
  /\ lastDirect.kind = "call" /\ lastDirect.out.kind = "tensor"
  /\ lastAdjoint.kind = "call" /\ lastAdjoint.out.kind = "tensor"
  /\ lastMatrix.kind = "call" /\ lastMatrix.out.kind = "matrix"
  /\ \E p \in Pix(2, 3) : lastDirect.out.val[p] # 0
  /\ \E p \in Pix(2, 3) : lastAdjoint.out.val[p][0] # 0

\* The four responses of the call differ from one another, so that the band
\* of a pixel can be read off the mask.
DistinctResponses ==
  \A a, b \in {"red", "green", "blue", "pan"} : a # b => Response(a) # Response(b)

\* The pixels of the first 8x8 tile of the returned mask that hold a band.
TilePixels(band) == {p \in Pix(8, 8) : cfa_mask.val[p] = Response(band)}

\* The (row_offset, col_offset) positions a rule assigns a band at.
OffsetsOf(rule, band) ==
  {<<rule.assigns[n].ro, rule.assigns[n].co>> :
     n \in {o \in 1 .. Len(rule.assigns) : rule.assigns[o].band = band}}

\* A builder of an 8x8 pattern has returned a mask that holds a whole tile.
TileReturned(c) ==
  /\ pc = "returned" /\ cfa = c /\ KnownFile
  /\ input_shape[1] >= 8 /\ input_shape[2] >= 8
  /\ DistinctResponses

\* The tile holds each band at its offsets, r, g and b of them, and pan at
\* the other pixels.
TileCounts(r, g, b) ==
  /\ cfa_mask.kind = "tensor"
  /\ \A band \in {"red", "green", "blue"} :
       TilePixels(band) = OffsetsOf(RuleOf(cfa), band)
  /\ Cardinality(TilePixels("red")) = r
  /\ Cardinality(TilePixels("green")) = g
  /\ Cardinality(TilePixels("blue")) = b
  /\ Cardinality(TilePixels("pan")) = 64 - (r + g + b)

\* C13 as stated: the 8x8 tile of the Hamilton mask holds red, green and blue
\* at 8 positions each, the tile of the sparse_3 mask holds each of them at 1
\* position, and every other pixel holds pan.
C13_EightAndOnePerBand ==
  /\ TileReturned("hamilton") => TileCounts(8, 8, 8)
  /\ TileReturned("sparse_3") => TileCounts(1, 1, 1)

\* C13 amended: the 8x8 tile of the Hamilton mask holds red at 8 positions,
\* green at 16 and blue at 8, the tile of the sparse_3 mask holds red at 1
\* position, green at 2 and blue at 1, each band exactly at the offsets of its
\* assignments, and every other pixel holds pan.
C13_PerBandOffsets ==
  /\ TileReturned("hamilton") => TileCounts(8, 16, 8)
  /\ TileReturned("sparse_3") => TileCounts(1, 2, 1)

C13_Witness ==
  /\ TileReturned("hamilton")
  /\ responses_file = WV34
  /\ input_shape = <<9, 10, 3>>
  /\ cfa_mask.kind = "tensor"
  /\ cfa_mask.val[<<0, 4>>] = Response("green")
  /\ cfa_mask.val[<<4, 0>>] = Response("green")
  /\ cfa_mask.val[<<7, 7>>] = Response("blue")
  /\ cfa_mask.val[<<4, 1>>] = Response("pan")

\* The assignments in the opposite order, and with the n-th one applied last.
Reversed(s) == [n \in 1 .. Len(s) |-> s[Len(s) + 1 - n]]
MovedToEnd(s, n) == SubSeq(s, 1, n - 1) \o SubSeq(s, n + 1, Len(s)) \o <<s[n]>>

\* Other orders of the assignments: the opposite order, which turns every
\* pair round, and the first and the middle assignment applied last.
Orders(s) == {Reversed(s), MovedToEnd(s, 1), MovedToEnd(s, (Len(s) + 1) \div 2)}

\* The mask the builder of the call returns with its assignments in the order q.
MaskInOrder(q) ==
  BuildMask([RuleOf(cfa) EXCEPT !.assigns = q],
            input_shape, spectral_stencil, responses_file)

\* C14: on the grid of every call of every builder, no pixel lies in the
\* slices of two assignments, and the builder's assignments applied in another
\* order (reversed, or with the first or the middle one moved to the end) give
\* the mask the builder returned.
C14_OrderIndependence ==
  (pc = "returned" /\ KnownFile) =>
    /\ cfa_mask.kind = "tensor"
    /\ \A r \in 0 .. input_shape[1] - 1, c \in 0 .. input_shape[2] - 1 :
         Cardinality(Hits(RuleOf(cfa), r, c)) <= 1
    /\ \A q \in Orders(RuleOf(cfa).assigns) : MaskInOrder(q) = cfa_mask

C14_Witness ==
  /\ pc = "returned"
  /\ cfa = "yamanaka"
  /\ responses_file = DIRAC
  /\ input_shape = <<5, 7, 3>>
  /\ cfa_mask.kind = "tensor"
  /\ Hits(RuleOf(cfa), 1, 3) = {2}
  /\ Hits(RuleOf(cfa), 4, 5) = {1}
  /\ Hits(RuleOf(cfa), 3, 5) = {3}
  /\ cfa_mask.val[<<1, 3>>] = Response("red")
  /\ cfa_mask.val[<<3, 5>>] = Response("blue")
  /\ Response("red") # Response("blue")
  /\ MaskInOrder(Reversed(RuleOf(cfa).assigns)) = cfa_mask

====
